---- MODULE Spec2Model ----
(***************************************************************************)
(* Model of the in-process sliding-window rate limiter of                  *)
(* backend/src/middleware/validate.js: the module-level requestCounts map, *)
(* the middleware returned by createRateLimiter, the hourly sweep and the  *)
(* four named instances of rateLimiters; and of the in-memory TTL cache of *)
(* backend/src/services/cacheService.js: the Map of entries, get, has,     *)
(* set, getOrSet across its await, cleanExpired and its five-minute timer; *)
(* of the response cache of backend/src/middleware/cache.js, of the        *)
(* validate middleware with its validators, and of the password-reset      *)
(* tokens of backend/src/controllers/authController.js.                    *)
(*                                                                         *)
(* Time is Date.now() in milliseconds, counted from the instant the module *)
(* was loaded (TLC integers are 32 bits wide, so the epoch offset is left  *)
(* out; the code only ever compares and subtracts instants).               *)
(***************************************************************************)
EXTENDS Integers, Sequences, FiniteSets, TLC

VARIABLES
    instances,      \* the limiter instances of the process: name -> options closed over
    now,            \* Date.now()
    ticks,          \* how often the clock has advanced (bounds the run)
    sweepDue,       \* the instant the setInterval timer next fires
    requestCounts,  \* validate.js:287, clientId -> array of timestamps
    res,            \* what the middleware that ran last did to its response
    swept,          \* requestCounts as the sweep that ran last found it
    admitted,       \* history: per instance and caller, the instants of the
                    \* admissions still inside that instance's window
    cache,          \* cacheService.js:9, key -> {value, expiresAt, createdAt}
    ret,            \* what the cache operation that ran last returned
    pending,        \* the getOrSet calls suspended at their await
    cleanDue,       \* the instant the cleanExpired timer next fires
    writes,         \* how many set and getOrSet calls were made and how many
                    \* requests went through cacheMiddleware (bounds the run)
    exchanges,      \* cache.js: the GET requests passed on by cacheMiddleware whose
                    \* handler has not answered yet
    reply,          \* what cacheMiddleware and the handler did to the response
                    \* of the request that was served last
    filledBy,       \* history: per key, who sent the request whose answer was
                    \* stored under it last
    rules,          \* validate.js:8, the rules the validate middleware closes over
    validated,      \* what the validate middleware that ran last did
    tokens,         \* authController.js: the PasswordResetToken collection
    verifying,      \* the verifyAndUse calls between their findOne and their save
    verified        \* history: what the verifyAndUse calls have returned

limiterVars == <<instances, sweepDue, requestCounts, res, swept, admitted>>
cacheVars == <<cache, ret, pending, cleanDue, writes>>
httpVars == <<exchanges, reply, filledBy>>
validateVars == <<rules, validated>>
tokenVars == <<tokens, verifying, verified>>
restVars == <<httpVars, validateVars, tokenVars>>
vars == <<limiterVars, now, ticks, cacheVars, restVars>>

----------------------------------------------------------------------------
(* Bounds of the model *)

\* the clock advances at most this often in one run: around a limiter used
\* alone, and in the deployed process
MaxTicks == 3
DeployedTicks == 1
\* quotas of the named instances (deployed: 100, 30, 20, 10), order kept
GeneralMax == 4
AuthMax == 3
UploadMax == 2
PaymentMax == 1
\* largest quota of a limiter created on its own
AloneMaxQuota == 2
\* the clock advances at most this often in one run of the cache
CacheTicks == 2
\* at most this many set and getOrSet calls are made in one run, and at
\* most this many requests go through cacheMiddleware
MaxWrites == 2
\* at most this many getOrSet calls are suspended at their await together
MaxCalls == 2
\* where the clock runs for as long as something awaits collection, requests
\* and writes arrive only before the clock has advanced this often
LiveTicks == 2
\* at most this many reset tokens and one-time codes are created in one run
MaxTokens == 2
\* at most this many verifyAndUse calls are made in one run
MaxVerifies == 2
\* a limiter that never rejects is sent at most this many requests by one
\* caller between two advances of the clock
MaxBurst == 2


----------------------------------------------------------------------------
(* Requests *)

\* an absent property (undefined)
None == "none"

IPs == {"10.0.0.1", "10.0.0.2"}
UserIds == {"u1", "u2"}

\* req.ip, req.connection.remoteAddress, req.userId as the middleware reads
\* them: anonymous and authenticated requests from one address, and one of
\* the users again from a second address that arrives without req.ip
Requests ==
    {[ip |-> "10.0.0.1", remoteAddress |-> "10.0.0.1", userId |-> u] :
        u \in UserIds \cup {None}}
    \cup
    {[ip |-> None, remoteAddress |-> "10.0.0.2", userId |-> "u1"]}

NoRequest == [ip |-> None, remoteAddress |-> None, userId |-> None]

\* who a request is counted against, as the limiter's identity mode is
\* specified: the authenticated identity where the instance is configured
\* for it and the request carries one, the network address otherwise
address(req) == IF req.ip # None THEN req.ip ELSE req.remoteAddress

caller(opts, req) ==
    IF opts.useUserId /\ req.userId # None
    THEN <<"identity", req.userId>>
    ELSE <<"address", address(req)>>

Callers ==
    {<<"identity", u>> : u \in UserIds} \cup {<<"address", a>> : a \in IPs}

----------------------------------------------------------------------------
(* createRateLimiter: the options with their defaults *)

createRateLimiter(options) ==
    [windowMs    |-> IF "windowMs" \in DOMAIN options
                     THEN options.windowMs ELSE 15 * 60 * 1000,
     maxRequests |-> IF "maxRequests" \in DOMAIN options
                     THEN options.maxRequests ELSE 100,
     message     |-> IF "message" \in DOMAIN options
                     THEN options.message
                     ELSE "Too many requests from this IP, please try again later.",
     useUserId   |-> IF "useUserId" \in DOMAIN options
                     THEN options.useUserId ELSE FALSE]

rateLimiters ==
    [general |-> createRateLimiter(
                    [windowMs |-> 15 * 60 * 1000, maxRequests |-> GeneralMax]),
     auth    |-> createRateLimiter(
                    [windowMs |-> 15 * 60 * 1000, maxRequests |-> AuthMax,
                     message |-> "Too many authentication attempts. Please try again later."]),
     upload  |-> createRateLimiter(
                    [windowMs |-> 60 * 60 * 1000, maxRequests |-> UploadMax,
                     message |-> "Upload limit exceeded. Please try again later."]),
     payment |-> createRateLimiter(
                    [windowMs |-> 15 * 60 * 1000, maxRequests |-> PaymentMax,
                     message |-> "Too many payment requests. Please try again later.",
                     useUserId |-> TRUE])]

\* options of a limiter created on its own
AloneOptions ==
    {[windowMs |-> 1000, maxRequests |-> m] : m \in 1..AloneMaxQuota}
    \cup {[maxRequests |-> 1, useUserId |-> TRUE]}

----------------------------------------------------------------------------
(* The middleware, line by line *)

\* validate.js:307-309
clientIdAddressOnly(opts, req) ==
    IF req.ip # None THEN <<"", req.ip>>
    ELSE IF req.remoteAddress # None THEN <<"", req.remoteAddress>>
    ELSE <<"", "unknown">>

clientIdPerInstance(opts, req) ==
    <<opts.message, IF req.ip # None THEN req.ip ELSE req.remoteAddress>>

clientId(opts, req) ==
    IF opts.useUserId /\ req.userId # None
    THEN <<"user_", req.userId>>
    ELSE IF req.ip # None THEN <<"", req.ip>>
    ELSE IF req.remoteAddress # None THEN <<"", req.remoteAddress>>
    ELSE <<"", "unknown">>

\* validate.js:313-317
requestsOf(cid) ==
    IF cid \in DOMAIN requestCounts THEN requestCounts[cid] ELSE <<>>

\* validate.js:318
validRequestsNoFilter(requests, windowStart) == requests

validRequestsInclusive(requests, windowStart) ==
    SelectSeq(requests, LAMBDA timestamp : timestamp >= windowStart)

validRequests(requests, windowStart) ==
    SelectSeq(requests, LAMBDA timestamp : timestamp > windowStart)

Range(seq) == {seq[i] : i \in 1..Len(seq)}

\* validate.js:319, Map.prototype.set
mapSet(map, key, value) ==
    [k \in DOMAIN map \cup {key} |-> IF k = key THEN value ELSE map[k]]

\* validate.js:321
overQuotaOffByOne(valid, maxRequests) == Len(valid) > maxRequests

overQuota(valid, maxRequests) == Len(valid) >= maxRequests

\* Math.ceil(x / 1000) of an integer x
ceilSeconds(x) == -((-x) \div 1000)

\* validate.js:322; [][0] of an empty array is undefined and the result NaN
retryAfterFloor(valid, windowMs, t) ==
    IF Len(valid) = 0 THEN "NaN" ELSE (valid[1] + windowMs - t) \div 1000

retryAfter(valid, windowMs, t) ==
    IF Len(valid) = 0 THEN "NaN" ELSE ceilSeconds(valid[1] + windowMs - t)

\* Date.prototype.toISOString: the instant split into the fields it prints
\* (day number for the calendar date, then hours, minutes, seconds, ms)
toISOString(ms) ==
    <<ms \div 86400000,
      (ms % 86400000) \div 3600000,
      (ms % 3600000) \div 60000,
      (ms % 60000) \div 1000,
      ms % 1000>>

\* validate.js:332, evaluated after the push of line 330
remainingBeforePush(maxRequests, valid) ==
    IF maxRequests - (Len(valid) - 1) > 0 THEN maxRequests - (Len(valid) - 1) ELSE 0

remaining(maxRequests, valid) ==
    IF maxRequests - Len(valid) > 0 THEN maxRequests - Len(valid) ELSE 0

NoHeaders == [h \in {} |-> 0]

Idle ==
    [name |-> None, req |-> NoRequest, statusCode |-> 0, body |-> <<>>,
     headers |-> NoHeaders, nextCalls |-> 0, count |-> 0]

\* validate.js:323-327: res.status(429).json({...}) and return
rejectAndContinue(name, opts, req, valid) ==
    [name |-> name, req |-> req, statusCode |-> 429,
     body |-> <<[success |-> FALSE, error |-> opts.message,
                 retryAfter |-> <<retryAfter(valid, opts.windowMs, now), " seconds">>]>>,
     headers |-> NoHeaders, nextCalls |-> 1, count |-> Len(valid)]

reject(name, opts, req, valid) ==
    [name |-> name, req |-> req, statusCode |-> 429,
     body |-> <<[success |-> FALSE, error |-> opts.message,
                 retryAfter |-> <<retryAfter(valid, opts.windowMs, now), " seconds">>]>>,
     headers |-> NoHeaders, nextCalls |-> 0, count |-> Len(valid)]

\* validate.js:330-335: push, the three headers, next(); count is the length
\* line 321 compared, pushed is the array after line 330
admit(name, opts, req, count, pushed) ==
    [name |-> name, req |-> req, statusCode |-> 200, body |-> <<>>,
     headers |-> ("X-RateLimit-Limit" :> opts.maxRequests)
              @@ ("X-RateLimit-Remaining" :> remaining(opts.maxRequests, pushed))
              @@ ("X-RateLimit-Reset" :> toISOString(now + opts.windowMs)),
     nextCalls |-> 1, count |-> count]

\* validate.js:305-336, one request through the instance called name
limiter(name, req) ==
    LET opts        == instances[name]
        cid         == clientId(opts, req)
        windowStart == now - opts.windowMs
        valid       == validRequests(requestsOf(cid), windowStart)
        pushed      == Append(valid, now)
    IN  /\ IF overQuota(valid, opts.maxRequests)
           THEN /\ requestCounts' = mapSet(requestCounts, cid, valid)
                /\ res' = reject(name, opts, req, valid)
                /\ admitted' = admitted
           ELSE /\ requestCounts' = mapSet(requestCounts, cid, pushed)
                /\ res' = admit(name, opts, req, Len(valid), pushed)
                /\ admitted' = [admitted EXCEPT ![<<name, caller(opts, req)>>] = Append(@, now)]
        /\ swept' = <<>>
        /\ UNCHANGED <<instances, now, ticks, sweepDue, cacheVars, restVars>>

----------------------------------------------------------------------------
(* The periodic sweep, validate.js:339-351 *)

maxAge == 60 * 60 * 1000

sweepValidKeepAll(requests, t) == requests

sweepValid(requests, t) ==
    SelectSeq(requests, LAMBDA timestamp : timestamp > t - maxAge)

sweepMapKeepEmpty(map, t) ==
    [c \in DOMAIN map |-> sweepValid(map[c], t)]

sweepMap(map, t) ==
    [c \in {d \in DOMAIN map : Len(sweepValid(map[d], t)) # 0} |->
        sweepValid(map[c], t)]

sweep ==
    /\ now >= sweepDue
    /\ requestCounts' = sweepMap(requestCounts, now)
    /\ swept' = <<requestCounts>>
    /\ sweepDue' = now + 60 * 60 * 1000
    /\ res' = Idle
    /\ UNCHANGED <<instances, now, ticks, admitted, cacheVars, restVars>>

----------------------------------------------------------------------------
(* The environment: the requests that arrive and the clock *)

Deployed == instances = rateLimiters

\* Deployed: one address sends anonymous requests to every route class and
\* pays anonymously or as either of two users, and one of the users also pays
\* from a second address. A limiter used alone sees every request shape.
Traffic ==
    IF Deployed
    THEN {<<name, req>> \in (DOMAIN rateLimiters) \X Requests :
            name = "payment" \/ (req.ip # None /\ req.userId = None)}
    ELSE (DOMAIN instances) \X Requests

\* the amounts (ms) by which Date.now() advances between two callbacks:
\* deployed, a general window or the hour; around a limiter used alone,
\* fractions of a one-second window and the rest of the hour
Steps ==
    IF Deployed THEN {900000, 3600000} ELSE {100, 400, 501, 3599900}

TickBudget == IF Deployed THEN DeployedTicks ELSE MaxTicks

\* the clock advances by d
advance(d) ==
    /\ now' = now + d
    /\ ticks' = ticks + 1
    /\ admitted' = [k \in DOMAIN admitted |->
                      SelectSeq(admitted[k],
                        LAMBDA t : t > now + d - instances[k[1]].windowMs)]
    /\ res' = Idle
    /\ swept' = <<>>
    /\ UNCHANGED <<instances, sweepDue, requestCounts, cacheVars, restVars>>

tick(d) ==
    /\ ticks < TickBudget
    /\ advance(d)

----------------------------------------------------------------------------
(* CacheService, cacheService.js:7-152 *)

\* the JavaScript value null
Null == "null"

Keys == {"k1", "k2"}
\* what callers store and what suppliers produce
Values == {"a", "b", Null}
\* what a failing supplier rejects with
Errors == {"ETIMEDOUT", "ECONNRESET"}

\* cacheService.js:10
defaultTTL == 5 * 60 * 1000

\* the optional third argument of set and getOrSet: left out, or one second
TTLArgs == {<<>>, <<1000>>}
\* a third argument that is not a positive duration
BadTTLArgs == {<<0>>, <<-1000>>}

\* cacheService.js:40 and 89, the default parameter ttl = this.defaultTTL
ttlOf(arg) == IF arg = <<>> THEN defaultTTL ELSE arg[1]

\* cacheService.js:24 and 74
isExpiredInclusive(item, t) == t >= item.expiresAt

isExpired(item, t) == t > item.expiresAt

\* Map.prototype.delete
mapDelete(map, key) == [k \in DOMAIN map \ {key} |-> map[k]]

\* cacheService.js:18-32, what get returns and what it leaves in the Map
getValue(c, key, t) ==
    IF key \notin DOMAIN c THEN Null
    ELSE IF isExpired(c[key], t) THEN Null
    ELSE c[key].value

touchKeepExpired(c, key, t) == c

touch(c, key, t) ==
    IF key \in DOMAIN c /\ isExpired(c[key], t) THEN mapDelete(c, key) ELSE c

\* cacheService.js:70-80, what has returns (it leaves the Map as get does)
hasValue(c, key, t) ==
    IF key \notin DOMAIN c THEN FALSE
    ELSE IF isExpired(c[key], t) THEN FALSE
    ELSE TRUE

\* cacheService.js:40-47
setMapNoClock(c, key, value, ttl, t) ==
    mapSet(c, key, [value |-> value, expiresAt |-> ttl, createdAt |-> t])

setMap(c, key, value, ttl, t) ==
    mapSet(c, key, [value |-> value, expiresAt |-> t + ttl, createdAt |-> t])

\* cacheService.js:104-116: the Map it leaves and the count it returns
cleanExpiredMapInclusive(c, t) ==
    [k \in {j \in DOMAIN c : ~ isExpiredInclusive(c[j], t)} |-> c[k]]

cleanExpiredMapKeepAll(c, t) == c

cleanExpiredMap(c, t) ==
    [k \in {j \in DOMAIN c : ~ isExpired(c[j], t)} |-> c[k]]

cleanExpiredCount(c, t) ==
    Cardinality({k \in DOMAIN c : isExpired(c[k], t)})

\* cacheService.js:122-141
getStatsSkipExpired(c, t) ==
    [total   |-> Cardinality({k \in DOMAIN c : ~ isExpired(c[k], t)}),
     active  |-> Cardinality({k \in DOMAIN c : ~ isExpired(c[k], t)}),
     expired |-> 0,
     hitRate |-> 0]

getStats(c, t) ==
    [total   |-> Cardinality(DOMAIN c),
     active  |-> Cardinality({k \in DOMAIN c : ~ isExpired(c[k], t)}),
     expired |-> Cardinality({k \in DOMAIN c : isExpired(c[k], t)}),
     hitRate |-> 0]

\* the return of one cache operation: value is what it returned (None where
\* it returns undefined or has not returned yet), present the boolean has
\* returned, threw the error it threw,
\* removed the count cleanExpired returned; of a getOrSet call, call is its
\* number, fetched whether it invoked its supplier, supplied what the
\* supplier produced and ttl the time to live it stored with; evicted tells
\* whether the operation, from its entry on, deleted an entry of the Map;
\* of set, given is the value it was handed and replaced the entry it found
\* under the key ("none", "live" or "expired"); stats is what getStats
\* returned
NoRet ==
    [op |-> None, key |-> None, value |-> None, present |-> FALSE,
     given |-> None, replaced |-> "none",
     stats |-> [total |-> 0, active |-> 0, expired |-> 0, hitRate |-> 0],
     threw |-> None, removed |-> 0, call |-> 0, fetched |-> FALSE, supplied |-> None, ttl |-> 0,
     evicted |-> FALSE]

\* cacheService.js:18-32
get(key) ==
    /\ cache' = touch(cache, key, now)
    /\ ret' = [NoRet EXCEPT !.op = "get", !.key = key,
                            !.value = getValue(cache, key, now),
                            !.evicted = (touch(cache, key, now) # cache)]
    /\ UNCHANGED <<pending, cleanDue, writes, limiterVars, restVars, now, ticks>>

\* cacheService.js:70-80
has(key) ==
    /\ cache' = touch(cache, key, now)
    /\ ret' = [NoRet EXCEPT !.op = "has", !.key = key,
                            !.present = hasValue(cache, key, now),
                            !.evicted = (touch(cache, key, now) # cache)]
    /\ UNCHANGED <<pending, cleanDue, writes, limiterVars, restVars, now, ticks>>

\* cacheService.js:40-47
set(key, value, arg) ==
    /\ writes < MaxWrites
    /\ writes' = writes + 1
    /\ cache' = setMap(cache, key, value, ttlOf(arg), now)
    /\ ret' = [NoRet EXCEPT !.op = "set", !.key = key, !.ttl = ttlOf(arg),
                            !.given = value,
                            !.replaced = IF key \notin DOMAIN cache THEN "none"
                                         ELSE IF isExpired(cache[key], now)
                                         THEN "expired" ELSE "live"]
    /\ UNCHANGED <<pending, cleanDue, limiterVars, restVars, now, ticks>>

\* cacheService.js:122-141, a call of getStats
stats ==
    /\ ret' = [NoRet EXCEPT !.op = "getStats", !.stats = getStats(cache, now)]
    /\ UNCHANGED <<cache, pending, cleanDue, writes, limiterVars, restVars, now, ticks>>

\* cacheService.js:91-93, the test of what get returned
isHit(cached) == cached # Null

\* cacheService.js:96, the write after the await
storeFirstWins(c, key, value, ttl, t) ==
    IF key \in DOMAIN c THEN c ELSE setMap(c, key, value, ttl, t)

store(c, key, value, ttl, t) == setMap(c, key, value, ttl, t)

\* cacheService.js:89-95: getOrSet up to its await; id is the least free
\* call number.
\* A hit returns the cached value; otherwise fetchFn() is invoked and the
\* call is suspended until the supplier settles.
getOrSetCall(id, key, arg) ==
    LET cached  == getValue(cache, key, now)
        evicted == touch(cache, key, now) # cache
    IN  /\ writes < MaxWrites
        /\ writes' = writes + 1
        /\ id \notin DOMAIN pending
        /\ \A i \in 1..(id - 1) : i \in DOMAIN pending
        /\ cache' = touch(cache, key, now)
        /\ IF isHit(cached)
           THEN /\ ret' = [NoRet EXCEPT !.op = "getOrSet", !.key = key,
                                        !.call = id, !.value = cached,
                                        !.ttl = ttlOf(arg), !.evicted = evicted]
                /\ pending' = pending
           ELSE /\ ret' = [NoRet EXCEPT !.op = "getOrSet", !.key = key,
                                        !.call = id, !.fetched = TRUE,
                                        !.ttl = ttlOf(arg), !.evicted = evicted]
                /\ pending' = mapSet(pending, id,
                                [key |-> key, ttl |-> ttlOf(arg), evicted |-> evicted,
                                 computed |-> <<>>, stale |-> FALSE])
        /\ UNCHANGED <<cleanDue, limiterVars, restVars, now, ticks>>

\* cacheService.js:95-97: the supplier of call id resolved with value
getOrSetResolved(id, value) ==
    /\ cache' = store(cache, pending[id].key, value, pending[id].ttl, now)
    /\ ret' = [NoRet EXCEPT !.op = "getOrSet", !.key = pending[id].key,
                            !.call = id, !.fetched = TRUE, !.supplied = value,
                            !.value = value, !.ttl = pending[id].ttl,
                            !.evicted = pending[id].evicted]

resolve(id, value) ==
    /\ id \in DOMAIN pending
    /\ getOrSetResolved(id, value)
    /\ pending' = mapDelete(pending, id)
    /\ UNCHANGED <<cleanDue, writes, limiterVars, restVars, now, ticks>>

\* cacheService.js:95: the supplier of call id rejected, the await throws and
\* lines 96-97 do not run
getOrSetCachesFailure(id, error) ==
    /\ cache' = store(cache, pending[id].key, Null, pending[id].ttl, now)
    /\ ret' = [NoRet EXCEPT !.op = "getOrSet", !.key = pending[id].key,
                            !.call = id, !.fetched = TRUE, !.threw = error,
                            !.ttl = pending[id].ttl,
                            !.evicted = pending[id].evicted]

getOrSetRejected(id, error) ==
    /\ cache' = cache
    /\ ret' = [NoRet EXCEPT !.op = "getOrSet", !.key = pending[id].key,
                            !.call = id, !.fetched = TRUE, !.threw = error,
                            !.ttl = pending[id].ttl,
                            !.evicted = pending[id].evicted]

fail(id, error) ==
    /\ id \in DOMAIN pending
    /\ getOrSetRejected(id, error)
    /\ pending' = mapDelete(pending, id)
    /\ UNCHANGED <<cleanDue, writes, limiterVars, restVars, now, ticks>>

\* cacheService.js:148-152, the timer callback: cleanExpired (104-116)
cleanTimer ==
    /\ now >= cleanDue
    /\ cache' = cleanExpiredMap(cache, now)
    /\ ret' = [NoRet EXCEPT !.op = "cleanExpired",
                            !.removed = cleanExpiredCount(cache, now),
                            !.evicted = (cleanExpiredMap(cache, now) # cache)]
    /\ cleanDue' = now + 5 * 60 * 1000
    /\ UNCHANGED <<pending, writes, limiterVars, restVars, now, ticks>>

\* the amounts (ms) by which Date.now() advances between two cache calls:
\* a millisecond, the one-second ttl, the default ttl and timer period
CacheSteps == {1, 1000, 300000}

cacheAdvance(d) ==
    /\ now' = now + d
    /\ ticks' = ticks + 1
    /\ ret' = NoRet
    /\ UNCHANGED <<cache, pending, cleanDue, writes, limiterVars, restVars>>

cacheTick(d) ==
    /\ ticks < CacheTicks
    /\ cacheAdvance(d)

\* the numbers of the getOrSet calls that can be in flight together
Calls == 1..MaxCalls

----------------------------------------------------------------------------
(* cacheService.delete and clear; cacheMiddleware and clearCache, cache.js *)

\* the calls and exchanges under one of the keys whose result has been
\* computed (computed is <<>> until then) and not yet delivered: an
\* invalidation of the key overtakes them
markStale(m, keys) ==
    [i \in DOMAIN m |->
        IF m[i].key \in keys /\ m[i].computed # <<>>
        THEN [m[i] EXCEPT !.stale = TRUE] ELSE m[i]]

\* cacheService.js:54-56, delete returns what Map.prototype.delete returns
deleteEntry(key) ==
    /\ cache' = mapDelete(cache, key)
    /\ ret' = [NoRet EXCEPT !.op = "delete", !.key = key,
                            !.present = (key \in DOMAIN cache)]
    /\ pending' = markStale(pending, {key})
    /\ exchanges' = markStale(exchanges, {key})

\* cacheService.js:61-63
clearEntries ==
    /\ cache' = [k \in {} |-> 0]
    /\ ret' = [NoRet EXCEPT !.op = "clear"]
    /\ pending' = markStale(pending, {pending[i].key : i \in DOMAIN pending})
    /\ exchanges' = markStale(exchanges, {exchanges[i].key : i \in DOMAIN exchanges})

delete(key) ==
    /\ deleteEntry(key)
    /\ UNCHANGED <<cleanDue, writes, limiterVars, reply, filledBy, validateVars,
                   tokenVars, now, ticks>>

clear ==
    /\ clearEntries
    /\ UNCHANGED <<cleanDue, writes, limiterVars, reply, filledBy, validateVars,
                   tokenVars, now, ticks>>

\* the supplier of the suspended call id has computed value from what it read
compute(id, value) ==
    /\ id \in DOMAIN pending
    /\ pending[id].computed = <<>>
    /\ pending' = [pending EXCEPT ![id].computed = <<value>>]
    /\ ret' = NoRet
    /\ UNCHANGED <<cache, cleanDue, writes, limiterVars, restVars, now, ticks>>

\* and settles with it
settle(id) ==
    /\ id \in DOMAIN pending
    /\ pending[id].computed # <<>>
    /\ resolve(id, pending[id].computed[1])

\* res.statusCode as the route handler leaves it before res.json
Statuses == {200, 201, 404}

\* req.method, req.originalUrl, req.url and who sent the request: reads of
\* one resource by two users as Express routes them, a read of another
\* resource, a write, and a read that arrives without originalUrl
HttpRequests ==
    {[method |-> "GET", originalUrl |-> "/a", url |-> "/a", userId |-> w] : w \in UserIds}
    \cup {[method |-> "GET", originalUrl |-> "/b", url |-> "/b", userId |-> "u1"],
          [method |-> "POST", originalUrl |-> "/a", url |-> "/a", userId |-> "u1"],
          [method |-> "GET", originalUrl |-> None, url |-> "/a", userId |-> "u2"]}

\* what route handlers pass to res.json
Payloads == {"a", Null}

\* the amount (ms) by which Date.now() advances between two requests: the
\* default ttl, which takes an entry to the instant it expires at and then
\* beyond it
HttpSteps == {300000}

\* cache.js:14-18, the defaults of cacheMiddleware(options = {})
cacheOptions == [ttl |-> 5 * 60 * 1000]

\* cache.js:16
keyGenerator(req) ==
    req.method \o ":" \o (IF req.originalUrl # None THEN req.originalUrl ELSE req.url)

\* cache.js:17
shouldCacheAnyStatus(req, statusCode) == req.method = "GET"

shouldCache(req, statusCode) == req.method = "GET" /\ statusCode = 200

\* cache.js:29
cacheHit(cached) == cached # Null

\* what the middleware did with one request, the n-th of the run: next
\* counts its calls of next(),
\* sent tells whether res.json went out, with xCache the X-Cache header,
\* statusCode and body; exchange numbers the request whose handler answers
\* later; stored tells whether the answer was written to the cache, evicted
\* whether the lookup of the request deleted an entry, stale whether the key
\* was invalidated after the handler had computed the answer
NoReply ==
    [op |-> None, n |-> 0, req |-> None, key |-> None, exchange |-> 0, next |-> 0,
     sent |-> FALSE, xCache |-> None, statusCode |-> 0, body |-> None,
     stored |-> FALSE, evicted |-> FALSE, stale |-> FALSE]

\* cache.js:20-53, the middleware up to its return; id is the least free
\* exchange number
request(id, req) ==
    LET cacheKey == keyGenerator(req)
        cached   == getValue(cache, cacheKey, now)
        evicted  == touch(cache, cacheKey, now) # cache
    IN  /\ writes < MaxWrites
        /\ writes' = writes + 1
        /\ id \notin DOMAIN exchanges
        /\ \A i \in 1..(id - 1) : i \in DOMAIN exchanges
        /\ IF req.method # "GET"
           THEN /\ cache' = cache
                /\ exchanges' = exchanges
                /\ reply' = [NoReply EXCEPT !.op = "request", !.n = writes + 1, !.req = req, !.next = 1]
           ELSE IF cacheHit(cached)
           THEN /\ cache' = touch(cache, cacheKey, now)
                /\ exchanges' = exchanges
                /\ reply' = [NoReply EXCEPT !.op = "request", !.n = writes + 1, !.req = req,
                                            !.key = cacheKey, !.sent = TRUE,
                                            !.xCache = "HIT", !.statusCode = 200,
                                            !.body = cached]
           ELSE /\ cache' = touch(cache, cacheKey, now)
                /\ exchanges' = mapSet(exchanges, id,
                                  [req |-> req, key |-> cacheKey, evicted |-> evicted,
                                   computed |-> <<>>, stale |-> FALSE])
                /\ reply' = [NoReply EXCEPT !.op = "request", !.n = writes + 1, !.req = req,
                                            !.key = cacheKey, !.exchange = id,
                                            !.next = 1, !.evicted = evicted]
        /\ UNCHANGED <<ret, pending, cleanDue, filledBy, limiterVars, validateVars,
                       tokenVars, now, ticks>>

\* cache.js:39-50, the route handler of exchange id calls the overridden
\* res.json(data) with res.statusCode = statusCode
json(id, statusCode, data) ==
    LET x == exchanges[id]
        stored == shouldCache(x.req, statusCode)
    IN  /\ cache' = IF stored
                    THEN setMap(cache, x.key, data, cacheOptions.ttl, now)
                    ELSE cache
        /\ filledBy' = IF stored THEN mapSet(filledBy, x.key, x.req.userId)
                       ELSE filledBy
        /\ reply' = [NoReply EXCEPT !.op = "json", !.req = x.req, !.key = x.key,
                                    !.exchange = id, !.next = 1, !.sent = TRUE,
                                    !.xCache = "MISS", !.statusCode = statusCode,
                                    !.body = data, !.stored = stored,
                                    !.evicted = x.evicted, !.stale = x.stale]

respond(id, statusCode, data) ==
    /\ id \in DOMAIN exchanges
    /\ json(id, statusCode, data)
    /\ exchanges' = mapDelete(exchanges, id)
    /\ UNCHANGED <<ret, pending, cleanDue, writes, limiterVars, validateVars,
                   tokenVars, now, ticks>>

\* the route handler of exchange id has computed its answer from what it read
handle(id, statusCode, data) ==
    /\ id \in DOMAIN exchanges
    /\ exchanges[id].computed = <<>>
    /\ exchanges' = [exchanges EXCEPT
                        ![id].computed = <<[statusCode |-> statusCode, data |-> data]>>]
    /\ reply' = NoReply
    /\ UNCHANGED <<cacheVars, filledBy, limiterVars, validateVars, tokenVars,
                   now, ticks>>

\* and answers with it
answer(id) ==
    /\ id \in DOMAIN exchanges
    /\ exchanges[id].computed # <<>>
    /\ respond(id, exchanges[id].computed[1].statusCode, exchanges[id].computed[1].data)

\* the argument of clearCache: a key, or a function
ClearArgs ==
    {[type |-> "string", key |-> keyGenerator(r)] : r \in HttpRequests}
    \cup {[type |-> "function", key |-> None]}

\* cache.js:60-68
clearCache(keyOrFn) ==
    /\ IF keyOrFn.type = "function" THEN clearEntries ELSE deleteEntry(keyOrFn.key)
    /\ reply' = [NoReply EXCEPT !.op = "clearCache", !.key = keyOrFn.key]
    /\ UNCHANGED <<cleanDue, writes, filledBy, limiterVars, validateVars,
                   tokenVars, now, ticks>>

----------------------------------------------------------------------------
(* The validate middleware, validate.js:8-63, and the validators *)

\* a JavaScript value as the validators read it: kind is typeof value (with
\* "null" for null), s is String(value), nan tells whether Number(value) is
\* NaN and num is Number(value) otherwise
Undefined == [kind |-> "undefined", s |-> "undefined", nan |-> TRUE, num |-> 0]
NullValue == [kind |-> "null", s |-> "null", nan |-> FALSE, num |-> 0]
Str(s, nan, num) == [kind |-> "string", s |-> s, nan |-> nan, num |-> num]
Num(s, num) == [kind |-> "number", s |-> s, nan |-> FALSE, num |-> num]

\* what a field of a request holds
FieldValues ==
    {Undefined, NullValue, Str("", FALSE, 0), Str("ab", TRUE, 0),
     Str("abcdef", TRUE, 0), Str("5", FALSE, 5), Num("5", 5), Num("50", 50)}

\* value === undefined || value === null || value === ''
isBlank(value) ==
    value.kind = "undefined" \/ value.kind = "null" \/ (value.kind = "string" /\ value.s = "")

\* the validators of validate.js:68-258 that rules are built from here; an
\* absent min or max is <<>>
required == [name |-> "required", min |-> <<>>, max |-> <<>>, allowed |-> <<>>]
optional == [name |-> "optional", min |-> <<>>, max |-> <<>>, allowed |-> <<>>]
isString == [name |-> "isString", min |-> <<>>, max |-> <<>>, allowed |-> <<>>]
isNumber == [name |-> "isNumber", min |-> <<>>, max |-> <<>>, allowed |-> <<>>]
length(min, max) == [name |-> "length", min |-> min, max |-> max, allowed |-> <<>>]
range(min, max) == [name |-> "range", min |-> min, max |-> max, allowed |-> <<>>]
isIn(allowedValues) == [name |-> "isIn", min |-> <<>>, max |-> <<>>, allowed |-> allowedValues]

RECURSIVE join(_, _)
\* Array.prototype.join
join(seq, sep) ==
    IF seq = <<>> THEN ""
    ELSE IF Len(seq) = 1 THEN seq[1]
    ELSE seq[1] \o sep \o join(Tail(seq), sep)

\* validate.js:72-77, 82, 87-92, 97-102, 177-190, 195-211, 216-223: what a
\* validator returns for the field and its value, null or the error
validator(v, field, value) ==
    CASE v.name = "required" ->
            IF isBlank(value) THEN field \o " is required" ELSE Null
      [] v.name = "optional" -> Null
      [] v.name = "isString" ->
            IF value.kind # "undefined" /\ value.kind # "string"
            THEN field \o " must be a string" ELSE Null
      [] v.name = "isNumber" ->
            IF value.kind # "undefined" /\ value.kind # "number"
            THEN field \o " must be a number" ELSE Null
      [] v.name = "length" ->
            IF isBlank(value) THEN Null
            ELSE IF v.min # <<>> /\ Len(value.s) < v.min[1]
            THEN field \o " must be at least " \o ToString(v.min[1]) \o " characters"
            ELSE IF v.max # <<>> /\ Len(value.s) > v.max[1]
            THEN field \o " must be at most " \o ToString(v.max[1]) \o " characters"
            ELSE Null
      [] v.name = "range" ->
            IF isBlank(value) THEN Null
            ELSE IF value.nan THEN field \o " must be a number"
            ELSE IF v.min # <<>> /\ value.num < v.min[1]
            THEN field \o " must be at least " \o ToString(v.min[1])
            ELSE IF v.max # <<>> /\ value.num > v.max[1]
            THEN field \o " must be at most " \o ToString(v.max[1])
            ELSE Null
      [] v.name = "isIn" ->
            IF isBlank(value) THEN Null
            ELSE IF value.kind # "string" \/ ~ \E i \in 1..Len(v.allowed) : v.allowed[i] = value.s
            THEN field \o " must be one of: " \o join(v.allowed, ", ")
            ELSE Null

\* validate.js:268 and 271, commonRules.string and commonRules.optionalNumber
string(min, max) == <<required, isString, length(min, max)>>
optionalNumber(min, max) == <<optional, isNumber, range(min, max)>>

\* one of rules.body, rules.params, rules.query: absent, or the entries of
\* the object in the order Object.entries yields them
NoSection == [defined |-> FALSE, entries |-> <<>>]
Section(entries) == [defined |-> TRUE, entries |-> entries]

NoRules == [body |-> NoSection, params |-> NoSection, query |-> NoSection]

\* the rules routes are protected with
RuleSets ==
    {NoRules,
     [NoRules EXCEPT !.body = Section(<< <<"name", string(<<1>>, <<3>>)>>,
                                         <<"age", optionalNumber(<<1>>, <<10>>)>> >>)],
     [NoRules EXCEPT !.params = Section(<< <<"id", <<required, length(<<2>>, <<2>>)>> >> >>),
                     !.query = Section(<< <<"page", <<optional, isNumber>> >> >>)],
     [NoRules EXCEPT !.body = Section(<< <<"status", <<required, isIn(<<"ab", "cd">>)>> >> >>),
                     !.query = Section(<< <<"status", <<optional, isString, length(<<3>>, <<>>)>> >> >>)]}

\* one of req.body, req.params, req.query: undefined, or an object
NoObject == [defined |-> FALSE, fields |-> [f \in {} |-> Undefined]]
Object(fields) == [defined |-> TRUE, fields |-> fields]

\* validate.js:15, 30, 45: req.body?.[field]
member(object, field) ==
    IF object.defined /\ field \in DOMAIN object.fields
    THEN object.fields[field] ELSE Undefined

RECURSIVE firstErrorNoBreak(_, _, _)
\* validate.js:17-23 with the break left out
firstErrorNoBreak(validators, field, value) ==
    IF validators = <<>> THEN <<>>
    ELSE LET error == validator(validators[1], field, value)
         IN  (IF error # Null /\ error # "" THEN <<error>> ELSE <<>>)
             \o firstErrorNoBreak(Tail(validators), field, value)

RECURSIVE firstError(_, _, _)
\* validate.js:17-23, the loop over the validators of one field: what it
\* pushes to errors
firstError(validators, field, value) ==
    IF validators = <<>> THEN <<>>
    ELSE LET error == validator(validators[1], field, value)
         IN  IF error # Null /\ error # "" THEN <<error>>
             ELSE firstError(Tail(validators), field, value)

RECURSIVE sectionErrors(_, _)
\* validate.js:13-25, 28-40, 43-55: the loop over the entries of one section
sectionErrors(entries, object) ==
    IF entries = <<>> THEN <<>>
    ELSE firstError(entries[1][2], entries[1][1], member(object, entries[1][1]))
         \o sectionErrors(Tail(entries), object)

\* validate.js:10-55
errorsOf(r, req) ==
    (IF r.body.defined THEN sectionErrors(r.body.entries, req.body) ELSE <<>>)
    \o (IF r.params.defined THEN sectionErrors(r.params.entries, req.params) ELSE <<>>)
    \o (IF r.query.defined THEN sectionErrors(r.query.entries, req.query) ELSE <<>>)

\* new AppError(message, statusCode, code)
AppError(message, statusCode, code) ==
    [message |-> message, statusCode |-> statusCode, code |-> code]

\* what the middleware did with one request: nextCalls counts its calls of
\* next() and args is what the last one was handed
NotValidated ==
    [req |-> [body |-> NoObject, params |-> NoObject, query |-> NoObject],
     nextCalls |-> 0, args |-> <<>>, errors |-> <<>>]

\* validate.js:9-62
validate(req) ==
    LET errors == errorsOf(rules, req)
    IN  /\ validated' =
              IF Len(errors) > 0
              THEN [req |-> req, nextCalls |-> 1, errors |-> errors,
                    args |-> <<AppError(join(errors, ", "), 400, "VALIDATION_ERROR")>>]
              ELSE [req |-> req, nextCalls |-> 1, errors |-> errors, args |-> <<>>]
        /\ UNCHANGED <<rules, limiterVars, cacheVars, httpVars, tokenVars, now, ticks>>

\* the fields the entries of a section name
fieldsOf(section) == {section.entries[i][1] : i \in 1..Len(section.entries)}

\* the objects a section of the rules is applied to: undefined, or an object
\* that holds any of the values under each field the rules name (a field
\* that holds undefined stands for a field left out)
ObjectsFor(section) ==
    IF ~ section.defined THEN {NoObject, Object([f \in {"other"} |-> Str("ab", TRUE, 0)])}
    ELSE {NoObject} \cup {Object(fs) : fs \in [fieldsOf(section) -> FieldValues]}

ValidateRequests ==
    [body : ObjectsFor(rules.body), params : ObjectsFor(rules.params),
     query : ObjectsFor(rules.query)]

(* PasswordResetToken, authController.js:220-360 *)

\* the addresses callers type
Emails == {"ann@x.io", "Ann@x.io"}

\* String.prototype.toLowerCase on these addresses
toLowerCase(email) == IF email = "Ann@x.io" THEN "ann@x.io" ELSE email

\* what generateToken (authController.js:220-222) returns, call after call:
\* 32 random bytes, taken to differ from every token handed out before
TokenValues == <<"9f2c", "41ab", "c07e">>

\* what generateOTP (authController.js:228-231) can return: six random digits,
\* which can repeat
OtpCodes == {"123456"}

\* the calls that can be in flight together are numbered; id is free when no
\* call in flight has it and every smaller number is taken
FreeCall(id) ==
    /\ id \notin DOMAIN verifying
    /\ \A i \in 1..(id - 1) : i \in DOMAIN verifying

\* authController.js:244-247 and 276-279, updateMany({email, used: false},
\* {used: true})
updateMany(email) ==
    [d \in DOMAIN tokens |->
        IF tokens[d].email = toLowerCase(email) /\ ~ tokens[d].used
        THEN [tokens[d] EXCEPT !.used = TRUE] ELSE tokens[d]]

\* authController.js:242-247, createToken up to the await of its updateMany
createToken(id, email) ==
    /\ FreeCall(id)
    /\ Cardinality(DOMAIN tokens)
         + Cardinality({i \in DOMAIN verifying : verifying[i].doc = 0}) < MaxTokens
    /\ tokens' = updateMany(email)
    /\ verifying' = mapSet(verifying, id,
                      [op |-> "createToken", email |-> email, token |-> None, doc |-> 0])
    /\ UNCHANGED <<verified, limiterVars, cacheVars, httpVars, validateVars, now, ticks>>

\* authController.js:274-279, createOTP up to the await of its updateMany
createOTP(id, email) ==
    /\ FreeCall(id)
    /\ Cardinality(DOMAIN tokens)
         + Cardinality({i \in DOMAIN verifying : verifying[i].doc = 0}) < MaxTokens
    /\ tokens' = updateMany(email)
    /\ verifying' = mapSet(verifying, id,
                      [op |-> "createOTP", email |-> email, token |-> None, doc |-> 0])
    /\ UNCHANGED <<verified, limiterVars, cacheVars, httpVars, validateVars, now, ticks>>

\* authController.js:249-262 and 281-294, the rest of createToken and of
\* createOTP: the document is created with the default used: false; a link
\* token expires in an hour, a one-time code in ten minutes
create(id, token) ==
    /\ id \in DOMAIN verifying
    /\ verifying[id].doc = 0
    /\ IF verifying[id].op = "createToken"
       THEN LET n == Cardinality({d \in DOMAIN tokens : tokens[d].token \notin OtpCodes})
            IN  n < Len(TokenValues) /\ token = TokenValues[n + 1]
       ELSE token \in OtpCodes
    /\ tokens' = mapSet(tokens, Cardinality(DOMAIN tokens) + 1,
                   [email |-> toLowerCase(verifying[id].email), token |-> token,
                    used |-> FALSE,
                    expiresAt |-> now + (IF verifying[id].op = "createToken"
                                         THEN 60 * 60 * 1000 ELSE 10 * 60 * 1000)])
    /\ verifying' = mapDelete(verifying, id)
    /\ UNCHANGED <<verified, limiterVars, cacheVars, httpVars, validateVars, now, ticks>>

\* authController.js:303-307 and 344-349, the documents the filter of findOne
\* matches; email is <<>> where the filter has none
matching(email, token) ==
    {d \in DOMAIN tokens :
        /\ email # <<>> => tokens[d].email = email[1]
        /\ tokens[d].token = token
        /\ tokens[d].used = FALSE
        /\ tokens[d].expiresAt > now}

\* what one verifyAndUse call returned: result is the number of the document
\* (0 for null), used what the stored document said when the call set its
\* own copy to used, expired whether the document had expired by the time the
\* call returned it
returned(id, op, token, result) ==
    [call |-> id, op |-> op, token |-> token, result |-> result,
     used |-> IF result = 0 THEN FALSE ELSE tokens[result].used,
     expired |-> IF result = 0 THEN FALSE ELSE ~ (tokens[result].expiresAt > now)]

\* authController.js:302-311 and 343-353, a verifyAndUse call up to its return
\* of null or to the await of its save
findOne(id, op, email, token) ==
    /\ FreeCall(id)
    /\ Len(verified)
         + Cardinality({i \in DOMAIN verifying : verifying[i].doc # 0}) < MaxVerifies
    /\ IF matching(email, token) = {}
       THEN /\ verified' = Append(verified, returned(id, op, token, 0))
            /\ verifying' = verifying
       ELSE /\ verified' = verified
            /\ \E d \in matching(email, token) :
                  verifying' = mapSet(verifying, id,
                                  [op |-> op, email |-> email, token |-> token, doc |-> d])
    /\ UNCHANGED <<tokens, limiterVars, cacheVars, httpVars, validateVars, now, ticks>>

verifyAndUseToken(id, token) == findOne(id, "verifyAndUseToken", <<>>, token)

verifyAndUseOTP(id, email, otp) ==
    findOne(id, "verifyAndUseOTP", <<toLowerCase(email)>>, otp)

\* authController.js:313-317 and 355-359: tokenDoc.used = true, save, return
save(id) ==
    /\ id \in DOMAIN verifying
    /\ verifying[id].doc # 0
    /\ tokens' = [tokens EXCEPT ![verifying[id].doc].used = TRUE]
    /\ verified' = Append(verified, returned(id, verifying[id].op, verifying[id].token,
                                             verifying[id].doc))
    /\ verifying' = mapDelete(verifying, id)
    /\ UNCHANGED <<limiterVars, cacheVars, httpVars, validateVars, now, ticks>>

\* the amounts (ms) by which Date.now() advances between two calls: the life
\* of a one-time code and the life of a link token
TokenSteps == {600000, 3600000}

----------------------------------------------------------------------------
(* Specifications *)

InitExceptRules(inst) ==
    /\ instances = inst
    /\ now = 0
    /\ ticks = 0
    /\ sweepDue = 60 * 60 * 1000
    /\ requestCounts = [c \in {} |-> <<>>]
    /\ res = Idle
    /\ swept = <<>>
    /\ admitted = [k \in (DOMAIN inst) \X Callers |-> <<>>]
    /\ cache = [k \in {} |-> 0]
    /\ ret = NoRet
    /\ pending = [i \in {} |-> 0]
    /\ cleanDue = 5 * 60 * 1000
    /\ writes = 0
    /\ exchanges = [i \in {} |-> 0]
    /\ reply = NoReply
    /\ filledBy = [k \in {} |-> 0]
    /\ validated = NotValidated
    /\ tokens = [d \in {} |-> 0]
    /\ verifying = [i \in {} |-> 0]
    /\ verified = <<>>

InitWith(inst) == InitExceptRules(inst) /\ rules = NoRules

\* the process as deployed: the four named instances on one map
Init == InitWith(rateLimiters)

\* one limiter created by createRateLimiter and used alone
InitAlone ==
    \E o \in AloneOptions :
        InitWith([limiter |-> createRateLimiter(o)])

Next ==
    \/ \E t \in Traffic : limiter(t[1], t[2])
    \/ \E d \in Steps : tick(d)
    \/ sweep

Spec == Init /\ [][Next]_vars

SpecAlone == InitAlone /\ [][Next]_vars

\* one limiter whose window is wider than the horizon of the sweep
InitWide ==
    InitWith([limiter |-> createRateLimiter(
                [windowMs |-> 2 * 60 * 60 * 1000, maxRequests |-> AloneMaxQuota])])

SpecWide == InitWide /\ [][Next]_vars

\* where a client falls silent: requests arrive only early in the run, and
\* the clock runs on for as long as a client is tracked, long enough for two
\* more periods of the timer; the timer callback runs as soon as it is due,
\* before the clock moves on
LiveSteps == {1800000, 3600000}

LiveHorizon == LiveTicks + 2 * ((60 * 60 * 1000) \div 1800000)

liveRequest(name, req) ==
    /\ ticks < LiveTicks
    /\ limiter(name, req)

liveTick(d) ==
    /\ DOMAIN requestCounts # {}
    /\ now < sweepDue
    /\ ticks < LiveHorizon
    /\ advance(d)

NextSweepLive ==
    \/ \E t \in Traffic : liveRequest(t[1], t[2])
    \/ \E d \in LiveSteps : liveTick(d)
    \/ sweep

\* setInterval keeps firing and time keeps passing
SpecSweepLive ==
    /\ InitAlone
    /\ [][NextSweepLive]_vars
    /\ WF_vars(\E d \in LiveSteps : liveTick(d))
    /\ WF_vars(sweep)

\* a limiter constructed with a window that is not positive, and callers of
\* set that pass a ttl that is not positive
BadWindows == {0, -1000}

InitMisconfigured ==
    \E w \in BadWindows :
        InitWith([limiter |-> createRateLimiter([windowMs |-> w, maxRequests |-> 1])])

\* anonymous requests from one address
burst(name, req) ==
    /\ req.userId = None
    /\ Len(admitted[<<name, caller(instances[name], req)>>]) < MaxBurst
    /\ limiter(name, req)

NextMisconfigured ==
    \/ \E t \in Traffic : burst(t[1], t[2])
    \/ \E d \in Steps : tick(d)
    \/ sweep
    \/ \E v \in Values, a \in BadTTLArgs : set("k1", v, a)
    \/ get("k1")

SpecMisconfigured == InitMisconfigured /\ [][NextMisconfigured]_vars

\* the cache service of a process without limiter traffic
InitCache == InitWith([n \in {} |-> 0])

\* callers that read and write entries, the clock and the timer
NextCache ==
    \/ \E k \in Keys : get(k)
    \/ \E k \in Keys : has(k)
    \/ \E k \in Keys, v \in Values, a \in TTLArgs : set(k, v, a)
    \/ stats
    \/ \E d \in CacheSteps : cacheTick(d)
    \/ cleanTimer

SpecCache == InitCache /\ [][NextCache]_vars

\* callers that go through getOrSet, their suppliers and the clock
NextFill ==
    \/ \E id \in Calls, k \in Keys, a \in TTLArgs : getOrSetCall(id, k, a)
    \/ \E id \in Calls, v \in Values : resolve(id, v)
    \/ \E id \in Calls, e \in Errors : fail(id, e)
    \/ \E d \in CacheSteps : cacheTick(d)

SpecFill == InitCache /\ [][NextFill]_vars

\* requests through cacheMiddleware, their route handlers, clearCache and
\* the clock
NextHttp ==
    \/ \E id \in Calls \cup {MaxCalls + 1}, req \in HttpRequests : request(id, req)
    \/ \E id \in DOMAIN exchanges, c \in Statuses, data \in Payloads : respond(id, c, data)
    \/ \E a \in ClearArgs : clearCache(a)
    \/ \E d \in HttpSteps : cacheTick(d)

SpecHttp == InitCache /\ [][NextHttp]_vars

\* a route protected by validate(rules), and the requests that reach it
InitValidate ==
    /\ InitExceptRules([n \in {} |-> 0])
    /\ rules \in RuleSets

NextValidate == \E req \in ValidateRequests : validate(req)

SpecValidate == InitValidate /\ [][NextValidate]_vars

\* invalidations beside calls of getOrSet and requests through
\* cacheMiddleware that are waiting for their supplier or handler
NextInvalidate ==
    \/ \E id \in Calls, key \in Keys : getOrSetCall(id, key, <<>>)
    \/ \E id \in DOMAIN pending, value \in Values : compute(id, value)
    \/ \E id \in DOMAIN pending : settle(id)
    \/ \E key \in Keys : delete(key)
    \/ clear
    \/ \E id \in Calls, req \in HttpRequests : request(id, req)
    \/ \E id \in DOMAIN exchanges, c \in Statuses, data \in Payloads : handle(id, c, data)
    \/ \E id \in DOMAIN exchanges : answer(id)
    \/ \E a \in ClearArgs : clearCache(a)

SpecInvalidate == InitCache /\ [][NextInvalidate]_vars

\* password resets: tokens and codes are created, verified by calls that
\* overlap, and expire as time passes
NextReset ==
    \/ \E id \in Calls, email \in Emails : createToken(id, email)
    \/ \E id \in Calls, email \in Emails : createOTP(id, email)
    \/ \E id \in DOMAIN verifying, token \in Range(TokenValues) \cup OtpCodes : create(id, token)
    \/ \E id \in Calls, token \in {TokenValues[1]} \cup OtpCodes : verifyAndUseToken(id, token)
    \/ \E id \in Calls, email \in Emails, otp \in OtpCodes : verifyAndUseOTP(id, email, otp)
    \/ \E id \in DOMAIN verifying : save(id)
    \/ \E d \in TokenSteps : cacheTick(d)

SpecReset == InitCache /\ [][NextReset]_vars

\* where entries are left alone: writes arrive only early in the run and
\* nothing is read; the clock runs on for as long as the Map holds an entry,
\* long enough for three more periods of the timer, and the timer callback
\* runs as soon as it is due
CacheLiveSteps == {150000, 300000}

CacheLiveHorizon == LiveTicks + 3 * ((5 * 60 * 1000) \div 150000)

liveSet(key, value, arg) ==
    /\ ticks < LiveTicks
    /\ set(key, value, arg)

cacheLiveTick(d) ==
    /\ DOMAIN cache # {}
    /\ now < cleanDue
    /\ ticks < CacheLiveHorizon
    /\ cacheAdvance(d)

NextCacheLive ==
    \/ \E k \in Keys, v \in Values, a \in TTLArgs : liveSet(k, v, a)
    \/ \E d \in CacheLiveSteps : cacheLiveTick(d)
    \/ cleanTimer

\* setInterval keeps firing and time keeps passing
SpecCacheLive ==
    /\ InitCache
    /\ [][NextCacheLive]_vars
    /\ WF_vars(\E d \in CacheLiveSteps : cacheLiveTick(d))
    /\ WF_vars(cleanTimer)

----------------------------------------------------------------------------
(* Helpers of the properties *)

Occurrences(seq, t) == Cardinality({i \in 1..Len(seq) : seq[i] = t})

Oldest(seq) == CHOOSE t \in Range(seq) : \A u \in Range(seq) : t <= u

\* the least whole number of seconds that covers x milliseconds
SecondsCovering(x) ==
    CHOOSE k \in -1..3601 : 1000 * k >= x /\ 1000 * (k - 1) < x

\* the instant an ISO timestamp denotes
InstantOf(iso) ==
    iso[1] * 86400000 + iso[2] * 3600000 + iso[3] * 60000 + iso[4] * 1000 + iso[5]

Handled == res.name # None
Rejected == Handled /\ res.statusCode = 429
Admitted == Handled /\ res.statusCode # 429

\* the options of the instance that handled the last request, who the
\* request is counted against, and that caller's admissions by the instance
\* that are still inside its window
ResOpts == instances[res.name]
ResCaller == caller(ResOpts, res.req)
ResHistory == admitted[<<res.name, ResCaller>>]

\* how many admissions newer than start any of the instances in names has
\* counted against caller c
RECURSIVE NewerIn(_, _, _)
NewerIn(names, c, start) ==
    IF names = {} THEN 0
    ELSE LET name == CHOOSE n \in names : TRUE
         IN  Cardinality({i \in 1..Len(admitted[<<name, c>>]) :
                            admitted[<<name, c>>][i] > start})
             + NewerIn(names \ {name}, c, start)

CountedAgainst(c, start) == NewerIn(DOMAIN instances, c, start)

RateLimitHeaders == {"X-RateLimit-Limit", "X-RateLimit-Remaining", "X-RateLimit-Reset"}

----------------------------------------------------------------------------
(* Properties *)

\* C1: a limiter used alone never has more than maxRequests admissions of
\* one client inside the trailing window (now - windowMs, now], whatever the
\* other clients do; with the quota used up, a request is rejected.
C1_QuotaNeverExceeded ==
    \A k \in DOMAIN admitted : Len(admitted[k]) <= instances[k[1]].maxRequests

\* C1 witness: a client with two admissions in the window is rejected while
\* another client is tracked as well.
C1_Witness ==
    /\ Rejected
    /\ ResOpts.maxRequests = 2
    /\ Len(ResHistory) = 2
    /\ Cardinality(DOMAIN requestCounts) >= 2

\* C2: a step that rejects a request (answers 429) leaves the requestCounts
\* map exactly as it was: same tracked clients, same timestamps.
C2_RejectLeavesMapUnchanged ==
    [][(res'.name # None /\ res'.statusCode = 429) => requestCounts' = requestCounts]_vars

\* C3: a limiter used alone rejects a client only when maxRequests of its
\* admissions are still inside the trailing window; a client with fewer is
\* admitted (so it recovers once the oldest admission ages out).
C3_AdmittedWhenBelowQuota ==
    Rejected => Len(ResHistory) >= ResOpts.maxRequests

\* C3 witness: windowMs = 1000, maxRequests = 2, the request at t = 1001 is
\* admitted beside the admission of t = 400, the one of t = 0 having aged out.
C3_Witness ==
    /\ Admitted
    /\ ResOpts.windowMs = 1000
    /\ ResOpts.maxRequests = 2
    /\ now = 1001
    /\ ResHistory = <<400, 1001>>

\* C4: a rejection reports retryAfter = ceil((oldest admission still in the
\* window + windowMs - now) / 1000) seconds, a whole number >= 1.
C4_RetryAfterPositiveCeil ==
    Rejected =>
        /\ Len(res.body) = 1
        /\ res.body[1].retryAfter[1] =
              SecondsCovering(Oldest(ResHistory) + ResOpts.windowMs - now)
        /\ res.body[1].retryAfter[1] >= 1

\* C4 witness: a rejection a part of a second after the oldest admission of
\* a one-second window, where rounding up and rounding down differ.
C4_Witness ==
    /\ Rejected
    /\ ResOpts.windowMs = 1000
    /\ Oldest(ResHistory) < now
    /\ res.body[1].retryAfter[1] = 1

\* C5: every named instance admits at most its own maxRequests requests of
\* one client inside any trailing interval of its own windowMs, whatever the
\* client sends through the other instances.
C5_EachInstanceKeepsItsQuota ==
    \A name \in DOMAIN instances : \A c \in Callers :
        Cardinality({i \in 1..Len(admitted[<<name, c>>]) :
                        admitted[<<name, c>>][i] > now - instances[name].windowMs})
            <= instances[name].maxRequests

\* C6: every request that went through a limiter, admitted or rejected,
\* carries the three X-RateLimit headers on its response.
C6_HeadersOnEveryResponse ==
    Handled => RateLimitHeaders \subseteq DOMAIN res.headers

\* C7 as claimed: an admitted request reports remaining = maxRequests - count
\* with count the length compared at the admission test, before the push.
C7_RemainingCountsBeforePush ==
    Admitted =>
        /\ res.headers["X-RateLimit-Remaining"] = ResOpts.maxRequests - res.count
        /\ res.headers["X-RateLimit-Remaining"] >= 0
        /\ InstantOf(res.headers["X-RateLimit-Reset"]) = now + ResOpts.windowMs

\* C7 as amended: an admitted request reports remaining = maxRequests -
\* (count + 1), the current request included, never negative, the limit
\* maxRequests and the reset instant now + windowMs.
C7_RemainingCountsThisRequest ==
    Admitted =>
        /\ res.headers["X-RateLimit-Limit"] = ResOpts.maxRequests
        /\ res.headers["X-RateLimit-Remaining"] = ResOpts.maxRequests - (res.count + 1)
        /\ res.headers["X-RateLimit-Remaining"] >= 0
        /\ InstantOf(res.headers["X-RateLimit-Reset"]) = now + ResOpts.windowMs

\* C7 witness: the admission that uses up a quota of two, one request
\* counted before it, reports 0 remaining.
C7_Witness ==
    /\ Admitted
    /\ ResOpts.maxRequests = 2
    /\ res.count = 1
    /\ res.headers["X-RateLimit-Remaining"] = 0
    /\ now > 0

\* C8: a rejected request is answered 429 and next() is not called for it;
\* an admitted request gets no response from the limiter and next() is
\* called exactly once.
C8_NextOnlyWhenAdmitted ==
    Handled =>
        /\ res.statusCode = 429 => (res.nextCalls = 0 /\ Len(res.body) = 1)
        /\ res.statusCode # 429 => (res.nextCalls = 1 /\ Len(res.body) = 0)
        /\ res.statusCode = 429 <=> res.count >= ResOpts.maxRequests

\* C8 witness: the auth instance rejects a request and next() was not called.
C8_Witness ==
    /\ Rejected
    /\ res.name = "auth"
    /\ res.nextCalls = 0

\* C9: the payment instance counts a request that carries a userId against
\* that user alone, whatever address it comes from: it is rejected only when
\* maxRequests payments of that user are inside the window, and a user never
\* has more than maxRequests admitted; a request without userId is counted
\* against its address: it is rejected only when maxRequests requests counted
\* against that address are inside the window.
C9_PaymentKeyedByIdentity ==
    (Handled /\ res.name = "payment") =>
        IF res.req.userId # None
        THEN /\ Rejected => Len(admitted[<<"payment", <<"identity", res.req.userId>>>>])
                                >= ResOpts.maxRequests
             /\ Admitted => Len(admitted[<<"payment", <<"identity", res.req.userId>>>>])
                                <= ResOpts.maxRequests
        ELSE Rejected =>
                CountedAgainst(<<"address", address(res.req)>>, now - ResOpts.windowMs)
                    >= ResOpts.maxRequests

\* C9 witness: with the quota of the address and of user u1 used up at this
\* instant, the payment of user u2 from the same address is admitted.
C9_Witness ==
    /\ Admitted
    /\ res.name = "payment"
    /\ res.req.userId = "u2"
    /\ res.req.ip = "10.0.0.1"
    /\ <<"user_", "u1">> \in DOMAIN requestCounts
    /\ <<"", "10.0.0.1">> \in DOMAIN requestCounts
    /\ Len(admitted[<<"payment", <<"identity", "u1">>>>]) = ResOpts.maxRequests
    /\ Len(admitted[<<"payment", <<"address", "10.0.0.1">>>>]) = ResOpts.maxRequests

\* C10: right after a sweep every tracked client has a non-empty array of
\* timestamps all newer than now - maxAge, every timestamp newer than that
\* is still there, and a client with no such timestamp is no longer tracked.
C10_SweepKeepsExactlyTheRecent ==
    swept # <<>> =>
        LET before == swept[1] IN
        /\ DOMAIN requestCounts \subseteq DOMAIN before
        /\ \A c \in DOMAIN requestCounts :
              /\ Len(requestCounts[c]) > 0
              /\ \A t \in Range(requestCounts[c]) : t > now - maxAge
        /\ \A c \in DOMAIN before :
              /\ \A t \in Range(before[c]) :
                    t > now - maxAge =>
                        /\ c \in DOMAIN requestCounts
                        /\ Occurrences(requestCounts[c], t) = Occurrences(before[c], t)
              /\ (\A t \in Range(before[c]) : t <= now - maxAge)
                    => c \notin DOMAIN requestCounts

\* C10 witness: a sweep that dropped one client and shortened the array of
\* another.
C10_Witness ==
    /\ swept # <<>>
    /\ \E c \in DOMAIN swept[1] : c \notin DOMAIN requestCounts
    /\ \E c \in DOMAIN requestCounts : Len(requestCounts[c]) < Len(swept[1][c])

\* the keys requestCounts can hold
ClientIds ==
    {<<"user_", u>> : u \in UserIds} \cup {<<"", a>> : a \in IPs \cup {"unknown"}}

\* C11: the sweep's horizon maxAge is at least the windowMs of every limiter
\* createRateLimiter hands out, so a sweep never removes a timestamp that is
\* still inside the window of some instance, and the admissions of a caller
\* inside the window stay within the quota as they do without the sweep.
C11_SweepSparesEveryWindow ==
    /\ \A n \in DOMAIN instances : maxAge >= instances[n].windowMs
    /\ swept # <<>> =>
          \A c \in DOMAIN swept[1] : \A t \in Range(swept[1][c]) :
              (\E n \in DOMAIN instances : t > now - instances[n].windowMs) =>
                  /\ c \in DOMAIN requestCounts
                  /\ Occurrences(requestCounts[c], t) = Occurrences(swept[1][c], t)
    /\ \A k \in DOMAIN admitted : Len(admitted[k]) <= instances[k[1]].maxRequests

\* C12: with the timer firing and time passing, every tracked client is
\* eventually no longer tracked, removed by the sweep once its requests have
\* stopped, without any further request.
C12_SilentClientCollected ==
    \A c \in ClientIds :
        (c \in DOMAIN requestCounts) ~> (c \notin DOMAIN requestCounts)

\* C12 witness: after the requests have stopped, a sweep found clients
\* tracked and left none.
C12_Witness ==
    /\ swept # <<>>
    /\ DOMAIN swept[1] # {}
    /\ DOMAIN requestCounts = {}
    /\ ticks >= LiveTicks
    /\ res = Idle

\* C13: a limiter whose windowMs is not positive and a cache entry whose ttl
\* is not positive are refused: no request is ever handled by such a limiter
\* and no entry is ever stored that expires no later than it was created.
C13_MisconfigurationRejected ==
    /\ Handled => ResOpts.windowMs > 0
    /\ \A k \in DOMAIN cache : cache[k].expiresAt > cache[k].createdAt

\* a getOrSet call that has invoked its supplier and is suspended at its await
Suspended ==
    /\ ret.op = "getOrSet"
    /\ ret.fetched
    /\ ret.supplied = None
    /\ ret.threw = None

\* C14: a get or has of a key whose entry has now > expiresAt reports the key
\* absent and deletes the entry, whether or not cleanExpired ever ran; with
\* now <= expiresAt it reports the entry (get its value, has true) and leaves
\* the Map as it is; so does the read of a key without entry, reported absent.
C14_LazyExpiry ==
    [][ret'.op \in {"get", "has"} =>
        LET k == ret'.key IN
        IF k \in DOMAIN cache /\ now > cache[k].expiresAt
        THEN /\ cache' = [j \in DOMAIN cache \ {k} |-> cache[j]]
             /\ ret'.op = "get" => ret'.value = Null
             /\ ret'.op = "has" => ret'.present = FALSE
        ELSE IF k \in DOMAIN cache
        THEN /\ cache' = cache
             /\ ret'.op = "get" => ret'.value = cache[k].value
             /\ ret'.op = "has" => ret'.present = TRUE
        ELSE /\ cache' = cache
             /\ ret'.op = "get" => ret'.value = Null
             /\ ret'.op = "has" => ret'.present = FALSE]_vars

\* C14 witness: has found an expired entry and deleted it before the timer
\* ever fired, the entry of the other key staying in place.
C14_Witness ==
    /\ ret.op = "has"
    /\ ret.evicted
    /\ ~ ret.present
    /\ cleanDue = 5 * 60 * 1000
    /\ ret.key \notin DOMAIN cache
    /\ DOMAIN cache # {}

\* C15: right after set(k, v, ttl), whatever was under k before, get(k)
\* returns v and leaves the entry in place, the entry expires at now + ttl
\* of this set, and the entries of all other keys are as they were.
C15_SetThenGet ==
    [][ret'.op = "set" =>
        LET k == ret'.key IN
        /\ DOMAIN cache' = DOMAIN cache \cup {k}
        /\ getValue(cache', k, now) = ret'.given
        /\ touch(cache', k, now) = cache'
        /\ cache'[k].expiresAt = now + ret'.ttl
        /\ \A j \in DOMAIN cache \ {k} : cache'[j] = cache[j]]_vars

\* C15 witness: a set at a later instant overwrote an expired entry with a
\* different value, and a get at this instant returns the new one.
C15_Witness ==
    /\ ret.op = "set"
    /\ ret.replaced = "expired"
    /\ ret.given = "b"
    /\ now > 0
    /\ getValue(cache, ret.key, now) = "b"

\* C16: cleanExpired removes exactly the entries with expiresAt < now,
\* leaves every other entry as it was and returns the number removed; right
\* after it getStats counts no expired entry.
C16_CleanExpiredExact ==
    [][ret'.op = "cleanExpired" =>
        /\ DOMAIN cache' = {k \in DOMAIN cache : ~ (cache[k].expiresAt < now)}
        /\ \A k \in DOMAIN cache' : cache'[k] = cache[k]
        /\ ret'.removed = Cardinality(DOMAIN cache \ DOMAIN cache')
        /\ getStats(cache', now).expired = 0
        /\ getStats(cache', now).total = Cardinality(DOMAIN cache) - ret'.removed]_vars

\* C16 witness: the timer removed one entry and kept one that expires at
\* this very instant.
C16_Witness ==
    /\ ret.op = "cleanExpired"
    /\ ret.removed = 1
    /\ \E k \in DOMAIN cache : cache[k].expiresAt = now

\* C17: whatever its supplier produced, a getOrSet call stored it, and a
\* later getOrSet of the key while that entry is live returns it without
\* invoking the supplier: no call invokes its supplier while a live entry is
\* under its key.
C17_LiveEntryNeverRefetched ==
    Suspended =>
        ~ (ret.key \in DOMAIN cache /\ ~ isExpired(cache[ret.key], now))

\* C18 as claimed: a getOrSet call whose supplier failed has left the Map as
\* it was before the call: it stored nothing and deleted nothing.
C18_FailureLeavesMapAsBefore ==
    (ret.op = "getOrSet" /\ ret.threw # None) =>
        /\ ~ ret.evicted
        /\ ret.threw \in Errors

\* C18 as amended: a getOrSet call whose supplier failed throws the
\* supplier's error and stores nothing: the step in which the failure
\* arrives leaves the Map as it is, and the only change the call can have
\* made before is its initial get deleting an expired entry under the key.
C18_FailureStoresNothing ==
    [][(ret'.op = "getOrSet" /\ ret'.fetched /\ ret'.supplied = None) =>
        LET k == ret'.key IN
        IF ret'.threw # None
        THEN /\ cache' = cache
             /\ ret'.threw \in Errors
             /\ ret'.call \in DOMAIN pending
             /\ ret'.call \notin DOMAIN pending'
        ELSE /\ ret'.evicted <=> (k \in DOMAIN cache /\ now > cache[k].expiresAt)
             /\ cache' = [j \in DOMAIN cache \ {i \in {k} : ret'.evicted} |-> cache[j]]]_vars

\* C18 witness: a call found an expired entry under its key, its supplier
\* failed, and the Map no longer holds the entry.
C18_Witness ==
    /\ ret.op = "getOrSet"
    /\ ret.threw # None
    /\ ret.evicted
    /\ ret.key \notin DOMAIN cache

\* C19: getOrSet does not coalesce: a call skips its supplier only when a
\* live entry with a value other than null is under its key, whatever calls
\* are in flight; a call whose supplier resolved returns that supplier's
\* value and leaves it under the key, expiring ttl after this instant, so
\* the entry is the one of the supplier that resolved last.
C19_NoCoalescing ==
    /\ (ret.op = "getOrSet" /\ ~ ret.fetched) =>
          /\ ret.key \in DOMAIN cache
          /\ ~ isExpired(cache[ret.key], now)
          /\ ret.value = cache[ret.key].value
          /\ ret.value # Null
    /\ (ret.op = "getOrSet" /\ ret.supplied # None) =>
          /\ ret.value = ret.supplied
          /\ ret.key \in DOMAIN cache
          /\ cache[ret.key].value = ret.supplied
          /\ cache[ret.key].expiresAt = now + ret.ttl
          /\ cache[ret.key].createdAt = now

\* C19 witness: two calls for one absent key were in flight together; the
\* first supplier has resolved and its value is under the key while the
\* second call is still suspended.
C19_Witness ==
    /\ ret.op = "getOrSet"
    /\ ret.call = 1
    /\ ret.supplied = "a"
    /\ ~ ret.evicted
    /\ 2 \in DOMAIN pending
    /\ pending[2].key = ret.key
    /\ cache[ret.key].value = "a"

\* C20: with the timer firing and time passing, every expired entry is
\* eventually no longer in the Map (or a set has replaced it), without any
\* read of its key.
C20_ExpiredEntryCollected ==
    \A k \in Keys :
        (k \in DOMAIN cache /\ isExpired(cache[k], now))
            ~> (k \notin DOMAIN cache \/ ~ isExpired(cache[k], now))

\* C20 witness: after the writes have stopped, the timer removed the last
\* entries of the Map.
C20_Witness ==
    /\ ret.op = "cleanExpired"
    /\ ret.removed >= 1
    /\ DOMAIN cache = {}
    /\ ticks >= LiveTicks

\* C21: getStats changes no entry and reports the Map as it is: total is
\* the number of entries in the Map, expired the number of them with
\* now > expiresAt, active the others, so total = active + expired.
C21_StatsSnapshot ==
    [][ret'.op = "getStats" =>
        /\ cache' = cache
        /\ ret'.stats.total = Cardinality(DOMAIN cache)
        /\ ret'.stats.expired = Cardinality({k \in DOMAIN cache : now > cache[k].expiresAt})
        /\ ret'.stats.total = ret'.stats.active + ret'.stats.expired]_vars

\* C21 witness: getStats counted one expired entry, not yet swept or
\* touched, beside a live one.
C21_Witness ==
    /\ ret.op = "getStats"
    /\ ret.stats.expired = 1
    /\ ret.stats.active = 1
    /\ Cardinality(DOMAIN cache) = 2

\* a step in which cacheMiddleware is entered with a request, and a step in
\* which the route handler of a passed-on request calls res.json
RequestStep == reply'.op = "request" /\ reply'.n = writes' /\ writes' # writes

JsonStep ==
    /\ reply'.op = "json"
    /\ reply'.exchange \in DOMAIN exchanges
    /\ reply'.exchange \notin DOMAIN exchanges'

\* C22: a GET whose key has a live entry in the cache is answered by the
\* middleware itself with the stored payload and the header X-Cache: HIT,
\* and next() is not called.
C22_LiveEntryServedAsHit ==
    [][(RequestStep /\ reply'.req.method = "GET") =>
        LET k == reply'.key IN
        (k \in DOMAIN cache /\ ~ isExpired(cache[k], now)) =>
            /\ reply'.sent
            /\ reply'.xCache = "HIT"
            /\ reply'.body = cache[k].value
            /\ reply'.next = 0]_vars

\* C23 as claimed: a request that is not a GET is passed on without a read
\* or write of the cache, and a GET whose handler answers with a status
\* outside 2xx has left the cache as it was when the request arrived.
C23_BypassLeavesCacheUnchanged ==
    [][/\ (RequestStep /\ reply'.req.method # "GET") =>
            /\ cache' = cache
            /\ reply'.next = 1
            /\ ~ reply'.sent
       /\ (JsonStep /\ reply'.statusCode \notin 200..299) =>
            /\ cache' = cache
            /\ ~ reply'.evicted]_vars

\* C23 as amended: a request that is not a GET is passed on without a read or
\* write of the cache; a GET that misses is passed on after a lookup whose
\* only effect on the cache is to delete an expired entry under its key, and
\* when its handler answers with a status outside 2xx the answer goes out
\* with X-Cache: MISS and nothing is stored.
C23_BypassStoresNothing ==
    [][/\ (RequestStep /\ reply'.req.method # "GET") =>
            /\ cache' = cache
            /\ reply'.next = 1
            /\ ~ reply'.sent
            /\ exchanges' = exchanges
       /\ (RequestStep /\ reply'.req.method = "GET" /\ reply'.next = 1) =>
            LET k == reply'.key IN
            /\ reply'.evicted <=> (k \in DOMAIN cache /\ now > cache[k].expiresAt)
            /\ cache' = [j \in DOMAIN cache \ {i \in {k} : reply'.evicted} |-> cache[j]]
       /\ (JsonStep /\ reply'.statusCode \notin 200..299) =>
            /\ cache' = cache
            /\ ~ reply'.stored
            /\ reply'.xCache = "MISS"
            /\ reply'.sent]_vars

\* C23 witness: the lookup of a GET deleted the expired entry under its key,
\* the handler answered 404, and the cache holds nothing under the key.
C23_Witness ==
    /\ reply.op = "json"
    /\ reply.statusCode = 404
    /\ reply.evicted
    /\ reply.key \notin DOMAIN cache

\* C24: when the handler of a GET that missed answers with a 2xx status and
\* payload p, p is stored under the key as the answer goes out, expiring ttl
\* later; and a GET finds every live entry stored this way and is served its
\* payload as a hit.
C24_MissThenHit ==
    [][/\ (JsonStep /\ reply'.statusCode \in 200..299) =>
            /\ reply'.key \in DOMAIN cache'
            /\ cache'[reply'.key] = [value |-> reply'.body,
                                      expiresAt |-> now + cacheOptions.ttl,
                                      createdAt |-> now]
       /\ (RequestStep /\ reply'.req.method = "GET") =>
            LET k == reply'.key IN
            (k \in DOMAIN filledBy /\ k \in DOMAIN cache /\ ~ isExpired(cache[k], now)) =>
                /\ reply'.xCache = "HIT"
                /\ reply'.body = cache[k].value]_vars

\* C28: the key of the response cache leaves out who asks: a GET by one
\* caller whose key has a live entry stored from another caller's GET is
\* served that entry's payload as a hit, and next() is not called.
C28_HitWhoeverAsks ==
    [][(RequestStep /\ reply'.req.method = "GET") =>
        LET k == reply'.key IN
        (/\ k \in DOMAIN cache
         /\ ~ isExpired(cache[k], now)
         /\ k \in DOMAIN filledBy
         /\ filledBy[k] # reply'.req.userId) =>
            /\ k = keyGenerator([reply'.req EXCEPT !.userId = filledBy[k]])
            /\ reply'.sent
            /\ reply'.xCache = "HIT"
            /\ reply'.body = cache[k].value
            /\ reply'.next = 0]_vars

\* the validators of a field that return an error for its value
FailsAt(validators, field, value) ==
    {j \in 1..Len(validators) : validator(validators[j], field, value) # Null}

\* the entries of a section of the rules whose field fails for the object
Failing(section, object) ==
    {i \in 1..Len(section.entries) :
        FailsAt(section.entries[i][2], section.entries[i][1],
                member(object, section.entries[i][1])) # {}}

\* the error of the first failing validator of entry i
FirstFailure(section, object, i) ==
    LET vs == section.entries[i][2]
        f  == section.entries[i][1]
        F  == FailsAt(vs, f, member(object, f))
    IN  validator(vs[CHOOSE j \in F : \A k \in F : j <= k], f, member(object, f))

\* entry i of the section fails and i - 1 failing entries come before it
NthFailing(section, object, n, i) ==
    /\ i \in Failing(section, object)
    /\ Cardinality({k \in Failing(section, object) : k < i}) = n - 1

\* C25: the validate middleware calls next exactly once per request: with no
\* argument exactly when every validator of every field under body, params
\* and query returns null; otherwise with one AppError of status 400 and code
\* VALIDATION_ERROR whose message lists, joined by ", ", one error per
\* failing field, that of its first failing validator in declared order, the
\* fields of body first, then those of params, then those of query.
C25_NextOnceWithFirstErrors ==
    validated.nextCalls > 0 =>
        LET req == validated.req
            nb == Cardinality(Failing(rules.body, req.body))
            np == Cardinality(Failing(rules.params, req.params))
            nq == Cardinality(Failing(rules.query, req.query))
        IN  /\ validated.nextCalls = 1
            /\ validated.args = <<>> <=> nb + np + nq = 0
            /\ Len(validated.errors) = nb + np + nq
            /\ \A n \in 1..nb : \E i \in Failing(rules.body, req.body) :
                    /\ NthFailing(rules.body, req.body, n, i)
                    /\ validated.errors[n] = FirstFailure(rules.body, req.body, i)
            /\ \A n \in 1..np : \E i \in Failing(rules.params, req.params) :
                    /\ NthFailing(rules.params, req.params, n, i)
                    /\ validated.errors[nb + n] = FirstFailure(rules.params, req.params, i)
            /\ \A n \in 1..nq : \E i \in Failing(rules.query, req.query) :
                    /\ NthFailing(rules.query, req.query, n, i)
                    /\ validated.errors[nb + np + n] = FirstFailure(rules.query, req.query, i)
            /\ validated.args # <<>> =>
                    /\ Len(validated.args) = 1
                    /\ validated.args[1].statusCode = 400
                    /\ validated.args[1].code = "VALIDATION_ERROR"
                    /\ validated.args[1].message = join(validated.errors, ", ")

\* C25 witness: two fields of the body fail, each for more than one of its
\* validators, and the message names the first failure of each.
C25_Witness ==
    /\ validated.nextCalls = 1
    /\ validated.args # <<>>
    /\ validated.args[1].message = "name is required, age must be a number"
    /\ Cardinality(FailsAt(rules.body.entries[1][2], "name",
                           member(validated.req.body, "name"))) > 1
    /\ Cardinality(FailsAt(rules.body.entries[2][2], "age",
                           member(validated.req.body, "age"))) > 1

\* of the request a limiter handled in this step: the key it was counted
\* under, the timestamps the key held before, and the timestamps the filter
\* of the step kept (what the key holds now, less the push of an admission)
StepClientId == clientId(instances[res'.name], res'.req)

StepBefore == requestsOf(StepClientId)

StepKept ==
    IF res'.statusCode = 429 THEN requestCounts'[StepClientId]
    ELSE SubSeq(requestCounts'[StepClientId], 1, Len(requestCounts'[StepClientId]) - 1)

\* C26 as claimed: a request at time now keeps the timestamps of its client
\* that are not older than now - windowMs, the one exactly equal to
\* now - windowMs included, drops the others, and counts the kept ones
\* toward the quota.
C26_BoundaryRetained ==
    [][res'.name # None =>
        /\ StepKept = SelectSeq(StepBefore,
                         LAMBDA t : t >= now - instances[res'.name].windowMs)
        /\ res'.count = Len(StepKept)]_vars

\* C26 as amended: a request at time now keeps exactly the timestamps of its
\* client that are newer than now - windowMs and counts them toward the
\* quota; a timestamp equal to now - windowMs or older is dropped.
C26_BoundaryDropped ==
    [][res'.name # None =>
        /\ StepKept = SelectSeq(StepBefore,
                         LAMBDA t : t > now - instances[res'.name].windowMs)
        /\ res'.count = Len(StepKept)
        /\ \A i \in 1..Len(StepKept) : StepKept[i] # now - instances[res'.name].windowMs]_vars

\* C26 witness: a general request arrives exactly one window after an upload
\* of the same address that the upload instance still counts; the general
\* instance counts nothing and the map holds the new timestamp only.
C26_Witness ==
    /\ Handled
    /\ res.name = "general"
    /\ now - ResOpts.windowMs = 0
    /\ 0 \in Range(admitted[<<"upload", ResCaller>>])
    /\ res.count = 0
    /\ requestCounts[clientId(ResOpts, res.req)] = <<now>>

\* C27: the instances share one map keyed by clientId alone: a client with
\* at least as many general requests inside the window as the auth quota is
\* rejected by the auth instance, on its first authentication attempt too.
C27_SharedMapAcrossInstances ==
    (Handled /\ res.name = "auth") =>
        /\ res.count = CountedAgainst(ResCaller, now - ResOpts.windowMs)
                        - (IF Rejected THEN 0 ELSE 1)
        /\ Len(admitted[<<"general", ResCaller>>]) >= instances["auth"].maxRequests
                => Rejected

\* C27 witness: the auth instance rejects a client it has never admitted,
\* the general instance having admitted it as often as the auth quota.
C27_Witness ==
    /\ Rejected
    /\ res.name = "auth"
    /\ admitted[<<"auth", ResCaller>>] = <<>>
    /\ Len(admitted[<<"general", ResCaller>>]) = instances["auth"].maxRequests
    /\ \A n \in DOMAIN instances \ {"general"} : admitted[<<n, ResCaller>>] = <<>>

\* C29: an invalidation is not overtaken by a fill in flight: when delete,
\* clear or clearCache ran for a key after the supplier of a getOrSet call,
\* or the handler of a missed GET, had computed its result and before the
\* call completed, the completed call does not leave that result under the
\* key.
C29_InvalidationNotOvertaken ==
    [][/\ \A id \in DOMAIN pending \ DOMAIN pending' :
            (pending[id].stale /\ ret'.call = id /\ ret'.supplied # None) =>
                ~ /\ pending[id].key \in DOMAIN cache'
                  /\ cache'[pending[id].key].value = pending[id].computed[1]
       /\ \A id \in DOMAIN exchanges \ DOMAIN exchanges' :
            exchanges[id].stale =>
                ~ /\ exchanges[id].key \in DOMAIN cache'
                  /\ cache'[exchanges[id].key].value = exchanges[id].computed[1].data]_vars

\* C30: a reset token is used once: of all verifyAndUseToken and
\* verifyAndUseOTP calls, overlapping ones included, at most one returns a
\* given token document, and a call returns a document only if the stored
\* document was unused when the call marked it and unexpired when the call
\* returned it.
C30_TokenSingleUse ==
    /\ \A d \in DOMAIN tokens :
          Cardinality({i \in 1..Len(verified) : verified[i].result = d}) <= 1
    /\ \A i \in 1..Len(verified) :
          verified[i].result # 0 => (~ verified[i].used /\ ~ verified[i].expired)
====
